---- MODULE Spec2Model ----
(***************************************************************************)
(* Model of the ADRD care backend (src/agent.py): the chat handler with    *)
(* its appointment negotiation, and the three scheduling-service clients   *)
(* get_doctor_availability, check_next_available_slots, book_appointment.  *)
(*                                                                         *)
(* One action is one network (or agent) call together with the             *)
(* synchronous code that follows it up to the next call.  The scheduling   *)
(* service and the Swarm agents are the environment: every outcome they    *)
(* can produce is drawn with \E.                                           *)
(*                                                                         *)
(* Python values.  A key that is absent from a mapping is the value NoKey  *)
(* (NoKeyDate for a date); d.get(k) on it is falsy and d[k] raises         *)
(* KeyError.  A date string is a record of its month, day and year digits  *)
(* (z: written with leading zeros), so that strptime / strftime are real   *)
(* conversions.  A response text is the record of its template and of the  *)
(* values formatted into it.                                               *)
(***************************************************************************)
EXTENDS Integers, Sequences, FiniteSets, TLC

VARIABLES asyncio_imported, entry, pc, pm_agent, retry_count, agent_name,
          details, missing_fields, available_times, book_details,
          booking_result, scan, next_days, availability, response, calls,
          warnings, exc,
          \* the request of the turn, the content the orchestrator answered
          \* and the conversation handed to the medical agent
          request, orchestrator_response, medical_call,
          \* the HTTP status of the answer to POST /chat
          http_status,
          \* what the service answered to the last availability call made
          \* outside the scan loop, and to the booking POST
          get_answer, post_answer,
          \* two turns in flight together, and the slots the service has
          \* accepted (used by SpecConcurrent only)
          turns, booked

vars == <<asyncio_imported, entry, pc, pm_agent, retry_count, agent_name,
          details, missing_fields, available_times, book_details,
          booking_result, scan, next_days, availability, response, calls,
          warnings, exc, request, orchestrator_response, medical_call,
          http_status, get_answer, post_answer, turns, booked>>

----------------------------------------------------------------------------
(* Bounds of the model *)

\* longest available_times list the scheduling service returns
MaxTimes == 6
\* largest num_days a direct caller passes to check_next_available_slots
MaxNumDays == 5

(* Program constants *)

DefaultNumDays == 5
SameDayDisplay == 5
MultiDayDisplayDays == 3
MultiDayDisplayTimes == 3
max_retries == 2

----------------------------------------------------------------------------
(* Values *)

NoKey == "<absent>"

Min(a, b) == IF a <= b THEN a ELSE b

DateText(m, d, y, z) == [fmt |-> "m/d/Y", m |-> m, d |-> d, y |-> y, z |-> z]
NoKeyDate == [fmt |-> "<absent>", m |-> 0, d |-> 0, y |-> 0, z |-> FALSE]
EmptyDate == [fmt |-> "", m |-> 0, d |-> 0, y |-> 0, z |-> FALSE]
\* "2024-12-15": a date written in another format
IsoDate == [fmt |-> "Y-m-d", m |-> 12, d |-> 15, y |-> 2024, z |-> TRUE]

\* the times the scheduling service offers, in the order it returns them
SlotPool == <<"10:00 AM", "09:00 AM", "02:00 PM", "11:00 AM", "01:00 PM",
              "04:00 PM", "03:00 PM", "08:00 AM">>
ShortList == <<"10:00 AM">>
LongList == SubSeq(SlotPool, 1, Min(MaxTimes, Len(SlotPool)))
TimeLists == {<<>>, ShortList, LongList}

DoctorIds == {NoKey, "", "dr_001"}
DoctorNames == {NoKey, "Smith"}
ChatDates == {NoKeyDate, EmptyDate, IsoDate, DateText(12, 15, 2024, TRUE),
              DateText(2, 27, 2024, FALSE)}
\* start dates for direct calls of the scanner: month, leap-day and year ends
ScanDates == {EmptyDate, IsoDate, DateText(12, 15, 2024, TRUE),
              DateText(2, 27, 2024, FALSE), DateText(2, 27, 2023, TRUE),
              DateText(12, 29, 2023, TRUE), DateText(2, 30, 2024, TRUE)}
PreferredTimes == {NoKey, "", "09:00 AM", "05:00 PM"}
MissingFieldsLists == {<<>>, <<"doctor_id">>, <<"preferred_time", "doctor_id">>,
                       <<"patient_name">>}

DetailsOf(doc, name, date, time) ==
    [doctor_id |-> doc, doctor_name |-> name, preferred_date |-> date,
     preferred_time |-> time]
NoDetails == DetailsOf(NoKey, NoKey, NoKeyDate, NoKey)
AllDetails == {DetailsOf(doc, name, date, time) :
                 doc \in DoctorIds, name \in DoctorNames,
                 date \in ChatDates, time \in PreferredTimes}

None == [none |-> TRUE]

----------------------------------------------------------------------------
(* datetime *)

IsLeap(y) == (y % 4 = 0 /\ y % 100 # 0) \/ y % 400 = 0

DaysInMonth(m, y) ==
    IF m = 2 THEN (IF IsLeap(y) THEN 29 ELSE 28)
    ELSE IF m \in {4, 6, 9, 11} THEN 30 ELSE 31

\* datetime.strptime(s, "%m/%d/%Y") succeeds
Parses(s) ==
    /\ s.fmt = "m/d/Y"
    /\ s.m \in 1..12
    /\ s.d \in 1..DaysInMonth(s.m, s.y)

\* datetime.strptime(s, "%m/%d/%Y") of a string that parses
strptime(s) == [y |-> s.y, m |-> s.m, d |-> s.d]

\* dt.strftime("%m/%d/%Y"): always zero-padded
strftime(dt) == DateText(dt.m, dt.d, dt.y, TRUE)

\* dt + timedelta(days=1)
NextDay(dt) ==
    IF dt.d < DaysInMonth(dt.m, dt.y) THEN [dt EXCEPT !.d = dt.d + 1]
    ELSE IF dt.m < 12 THEN [dt EXCEPT !.d = 1, !.m = dt.m + 1]
    ELSE [y |-> dt.y + 1, m |-> 1, d |-> 1]

----------------------------------------------------------------------------
(* The scheduling service, as the clients see it *)

GetOutcome(kind, has_times, times) ==
    [kind |-> kind, has_times |-> has_times, times |-> times]

\* every answer to GET /doctor/availability: a timeout, a non-2xx status,
\* any other failure (transport, undecodable body), a 2xx body without the
\* available_times field, a 2xx body with it
GetOutcomes ==
    {GetOutcome(k, FALSE, <<>>) : k \in {"timeout", "status", "error", "ok"}}
    \cup {GetOutcome("ok", TRUE, l) : l \in TimeLists}

\* every answer to POST /appointments/book
PostOutcomes ==
    [kind : {"timeout", "error"}, status : {0}, body : {"none"}]
    \cup [kind : {"response"}, status : {200, 201, 409, 500},
          body : {"detail", "no_detail", "undecodable"}]

\* no call was answered yet
NoGetAnswer == GetOutcome("none", FALSE, <<>>)
NoPostAnswer == [kind |-> "none", status |-> 0, body |-> "none"]

NoData == [has_times |-> FALSE, available_times |-> <<>>]

AvailabilityFailure(error) ==
    [success |-> FALSE, has_data |-> FALSE, data |-> NoData,
     has_available_times |-> FALSE, available_times |-> <<>>,
     error |-> error]

\* variant: the handler of every exception comes first, so a non-2xx
\* status is reported as unexpected
get_doctor_availability_AnyError(o) ==
    IF o.kind = "ok"
    THEN [success |-> TRUE, has_data |-> TRUE,
          data |-> [has_times |-> o.has_times, available_times |-> o.times],
          has_available_times |-> TRUE,
          available_times |-> IF o.has_times THEN o.times ELSE <<>>,
          error |-> NoKey]
    ELSE AvailabilityFailure("An unexpected error occurred")

\* get_doctor_availability: the result for one answer of the service
get_doctor_availability(o) ==
    IF o.kind = "ok"
    THEN [success |-> TRUE, has_data |-> TRUE,
          data |-> [has_times |-> o.has_times, available_times |-> o.times],
          has_available_times |-> TRUE,
          available_times |-> IF o.has_times THEN o.times ELSE <<>>,
          error |-> NoKey]
    ELSE IF o.kind = "timeout"
    THEN AvailabilityFailure("Service temporarily unavailable")
    ELSE IF o.kind = "status"
    THEN AvailabilityFailure("Unable to fetch availability")
    ELSE AvailabilityFailure("An unexpected error occurred")

NoAvailability == AvailabilityFailure(NoKey)

GetCall(doctor_id, date) ==
    [op |-> "GET", doctor_id |-> doctor_id, date |-> date, time |-> NoKey]

PostCall(d) ==
    [op |-> "POST", doctor_id |-> d.doctor_id, date |-> d.preferred_date,
     time |-> d.preferred_time]

----------------------------------------------------------------------------
(* book_appointment *)

required_fields == <<"doctor_id", "preferred_date", "preferred_time">>

\* bool(details.get(field))
Truthy(d, field) ==
    IF field = "preferred_date" THEN d.preferred_date.fmt \notin {"<absent>", ""}
    ELSE IF field = "doctor_id" THEN d.doctor_id \notin {NoKey, ""}
    ELSE d.preferred_time \notin {NoKey, ""}

\* variant: "if field not in details", an empty value passes
MissingOf_AbsentOnly(d) ==
    LET absent(f) ==
          IF f = "preferred_date" THEN d.preferred_date = NoKeyDate
          ELSE IF f = "doctor_id" THEN d.doctor_id = NoKey
          ELSE d.preferred_time = NoKey
    IN  SelectSeq(required_fields, absent)

\* [field for field in required_fields if not details.get(field)]
MissingOf(d) ==
    LET missing(f) == ~Truthy(d, f) IN SelectSeq(required_fields, missing)

RECURSIVE Join(_, _)
\* sep.join(fields), as the sequence of its pieces
Join(fields, sep) ==
    IF Len(fields) = 0 THEN <<>>
    ELSE IF Len(fields) = 1 THEN <<fields[1]>>
    ELSE <<fields[1], sep>> \o Join(Tail(fields), sep)

BookingResult(success, data, error, has_alt, alt) ==
    [success |-> success, data |-> data, error |-> error,
     has_alternatives |-> has_alt, alternatives |-> alt]

NoBooking == BookingResult(FALSE, NoKey, <<NoKey>>, FALSE, <<>>)

\* the result of the precondition check
BookingMissing(missing) ==
    BookingResult(FALSE, NoKey,
                  <<"Missing required fields: ">> \o Join(missing, ", "),
                  FALSE, <<>>)

\* variant: every 2xx status counts as booked ("if response.is_success")
BookingOf_Any2xx(o) ==
    IF o.kind = "timeout"
    THEN BookingResult(FALSE, NoKey, <<"Service temporarily unavailable">>,
                       FALSE, <<>>)
    ELSE IF o.kind = "error" \/ o.body = "undecodable"
    THEN BookingResult(FALSE, NoKey, <<"An unexpected error occurred">>,
                       FALSE, <<>>)
    ELSE IF o.status \in 200..299
    THEN BookingResult(TRUE, "confirmation", <<NoKey>>, FALSE, <<>>)
    ELSE BookingResult(FALSE, NoKey,
                       IF o.body = "detail" THEN <<"upstream detail">>
                       ELSE <<"Booking failed">>,
                       FALSE, <<>>)

\* the result for every answer to the POST but a decodable 409
BookingOf(o) ==
    IF o.kind = "timeout"
    THEN BookingResult(FALSE, NoKey, <<"Service temporarily unavailable">>,
                       FALSE, <<>>)
    ELSE IF o.kind = "error" \/ o.body = "undecodable"
    THEN BookingResult(FALSE, NoKey, <<"An unexpected error occurred">>,
                       FALSE, <<>>)
    ELSE IF o.status = 200
    THEN BookingResult(TRUE, "confirmation", <<NoKey>>, FALSE, <<>>)
    ELSE BookingResult(FALSE, NoKey,
                       IF o.body = "detail" THEN <<"upstream detail">>
                       ELSE <<"Booking failed">>,
                       FALSE, <<>>)

\* variant: a 409 is handled as every other refusal
IsConflict_Never(o) == FALSE

\* the POST was answered 409 with a decodable body: alternatives are fetched
IsConflict(o) ==
    o.kind = "response" /\ o.status = 409 /\ o.body # "undecodable"

\* alternative_times.get("available_times", [])
AlternativesOf(res) ==
    IF res.has_available_times THEN res.available_times ELSE <<>>

BookingConflict(res) ==
    BookingResult(FALSE, NoKey, <<"Time slot no longer available">>,
                  TRUE, AlternativesOf(res))

----------------------------------------------------------------------------
(* MessageResponse and the texts of the chat handler *)

Coordinator == "Appointment Coordinator"

MessageResponse(text, agent, suggestions) ==
    [response |-> text, agent |-> agent, suggestions |-> suggestions]

NoResponse == MessageResponse([template |-> "<none>"], NoKey, None)

IntakeResponse(missing) ==
    MessageResponse([template |-> "intake", fields |-> Join(missing, ", ")],
                    Coordinator, None)

\* details.get('doctor_name', details['doctor_id'])
DoctorLabel(d) == IF d.doctor_name # NoKey THEN d.doctor_name ELSE d.doctor_id

ConfirmationResponse(d) ==
    MessageResponse([template |-> "confirmed", doctor |-> DoctorLabel(d),
                     date |-> d.preferred_date, time |-> d.preferred_time],
                    Coordinator, None)

\* available_times[:5]
SameDayLines(times) == SubSeq(times, 1, Min(SameDayDisplay, Len(times)))

\* variant: the suggestions carry the displayed times only
SameDaySuggestions_Shown(times, date) ==
    [available_times |-> SameDayLines(times), date |-> date]

SameDaySuggestions(times, date) == [available_times |-> times, date |-> date]

SameDayResponse(d, times) ==
    MessageResponse([template |-> "same_day", time |-> d.preferred_time,
                     date |-> d.preferred_date, lines |-> SameDayLines(times)],
                    Coordinator, SameDaySuggestions(times, d.preferred_date))

\* for day in next_days[:3]: ... for time in day['times'][:3]
MultiDayLines(days) ==
    [i \in 1..Min(MultiDayDisplayDays, Len(days)) |->
       [date |-> days[i].date,
        lines |-> SubSeq(days[i].times, 1,
                         Min(MultiDayDisplayTimes, Len(days[i].times)))]]

\* variant: the suggestions carry the displayed days only
MultiDaySuggestions_Shown(days) ==
    [available_days |-> SubSeq(days, 1, Min(MultiDayDisplayDays, Len(days)))]

MultiDaySuggestions(days) == [available_days |-> days]

MultiDayResponse(d, days) ==
    MessageResponse([template |-> "multi_day", date |-> d.preferred_date,
                     days |-> MultiDayLines(days)],
                    Coordinator, MultiDaySuggestions(days))

GenericResponse ==
    MessageResponse([template |-> "generic"], Coordinator, None)

MedicalResponse(text) ==
    MessageResponse([template |-> "verbatim", text |-> text],
                    "Medical Advisor", None)

OrchestratorResponse(text) ==
    MessageResponse([template |-> "verbatim", text |-> text],
                    "orchestrator", None)

SystemResponse ==
    MessageResponse([template |-> "system_error"], "system", None)

----------------------------------------------------------------------------
(* The decisions of the chat handler *)

\* variant: a single missing field does not stop the negotiation
NeedsIntake_Several(missing) == Len(missing) > 1

\* if missing_fields:
NeedsIntake(missing) == missing # <<>>

\* variant: "if availability:", true of every result
AvailabilityOk_Always(res) == TRUE

\* if availability.get("success"):
AvailabilityOk(res) == res.success

\* availability.get("data", {}).get("available_times", [])
DataTimes(res) ==
    IF res.has_data /\ res.data.has_times THEN res.data.available_times
    ELSE <<>>

\* variant: only the first returned time is compared
InTimes_FirstOnly(time, times) == times # <<>> /\ times[1] = time

\* details["preferred_time"] in available_times
InTimes(time, times) == \E i \in 1..Len(times) : times[i] = time

\* variant: "if booking_result:", true of every result
BookingSucceeded_AnyResult(result) == TRUE

\* if booking_result.get("success"):
BookingSucceeded(result) == result.success

\* variant: step 3 without "if available_times:"
OffersSameDay_Always(times) == TRUE

\* if available_times: (step 3)
OffersSameDay(times) == times # <<>>

\* variant: the days are offered without "if next_days:"
AfterScan_Offer(d, days) == MultiDayResponse(d, days)

\* after check_next_available_slots returned
AfterScan(d, days) ==
    IF days # <<>> THEN MultiDayResponse(d, days) ELSE GenericResponse

----------------------------------------------------------------------------
(* check_next_available_slots *)

NoDay == [y |-> 0, m |-> 0, d |-> 0]

NoScan == [state |-> "none", doctor_id |-> NoKey, start_date |-> NoKeyDate,
           num_days |-> 0, current_date |-> NoDay, available_slots |-> <<>>,
           errors |-> <<>>, i |-> 0, answers |-> <<>>]

\* the call raised before its loop (strptime)
ScanRaised(doctor_id, start_date, num_days) ==
    [NoScan EXCEPT !.state = "raised", !.doctor_id = doctor_id,
                   !.start_date = start_date, !.num_days = num_days]

\* the locals before the loop; answers is the history of what the
\* availability calls of the loop returned
ScanStart(doctor_id, start_date, num_days) ==
    [state |-> "running", doctor_id |-> doctor_id, start_date |-> start_date,
     num_days |-> num_days, current_date |-> strptime(start_date),
     available_slots |-> <<>>, errors |-> <<>>, i |-> 0, answers |-> <<>>]

\* the date asked for in this round of the loop
ScanDateStr(sc) == strftime(sc.current_date)

\* variant: a day that succeeded without times is kept
SlotsAfter_KeepEmpty(slots, date_str, res) ==
    IF res.success
    THEN Append(slots, [date |-> date_str, times |-> res.available_times])
    ELSE slots

\* available_slots after one round of the loop
SlotsAfter(slots, date_str, res) ==
    IF res.success /\ res.has_available_times /\ res.available_times # <<>>
    THEN Append(slots, [date |-> date_str, times |-> res.available_times])
    ELSE slots

\* errors after one round of the loop (the dates that failed)
ErrorsAfter(errors, date_str, res) ==
    IF res.success THEN errors ELSE Append(errors, date_str)

\* variant: a failed day ends its round with "continue", before the date
\* is advanced
ScanRound_ContinueOnError(sc, res) ==
    [sc EXCEPT !.available_slots = SlotsAfter(@, ScanDateStr(sc), res),
               !.errors = ErrorsAfter(@, ScanDateStr(sc), res),
               !.current_date = IF res.success THEN NextDay(@) ELSE @,
               !.i = @ + 1,
               !.answers = Append(@, [date |-> ScanDateStr(sc),
                                      success |-> res.success,
                                      times |-> res.available_times])]

\* one round of the loop
ScanRound(sc, res) ==
    [sc EXCEPT !.available_slots = SlotsAfter(@, ScanDateStr(sc), res),
               !.errors = ErrorsAfter(@, ScanDateStr(sc), res),
               !.current_date = NextDay(@),
               !.i = @ + 1,
               !.answers = Append(@, [date |-> ScanDateStr(sc),
                                      success |-> res.success,
                                      times |-> res.available_times])]

----------------------------------------------------------------------------
(* What the agents answer *)

Content(json, text, agent, resp, d, missing) ==
    [json |-> json, text |-> text, agent |-> agent, response |-> resp,
     details |-> d, missing_fields |-> missing]

\* the content of the orchestrator's last message: text that is not JSON,
\* JSON that is not an object, or an object.  An object without "details"
\* has NoDetails, one without "missing_fields" has the empty list: the
\* defaults of routing.get
OrchestratorContents ==
    {Content("invalid", "Hello! How can I help?", NoKey, NoKey, NoDetails, <<>>),
     Content("other", "[]", NoKey, NoKey, NoDetails, <<>>)}
    \cup {Content("object", "{...}", a, r, NoDetails, <<>>) :
            a \in {NoKey, "medical", "orchestrator", "greeting"},
            r \in {NoKey, "What do you need?"}}
    \cup {Content("object", "{...}", "appointment", NoKey, d, missing) :
            d \in AllDetails, missing \in MissingFieldsLists}

NoContent == Content("none", NoKey, NoKey, NoKey, NoDetails, <<>>)

MedicalTexts == {"ADRD symptoms include ...", "Please see a doctor."}

\* MessageRequest: the message, and the history when the client sent one
MessageRequest(message, has_history, history) ==
    [message |-> message, has_history |-> has_history, history |-> history]

NoRequest == MessageRequest(NoKey, FALSE, <<>>)

Requests ==
    {MessageRequest("What are early signs of dementia?", FALSE, <<>>),
     MessageRequest("I need to see Dr. Smith", TRUE,
                    <<[role |-> "user", content |-> "Hello"],
                      [role |-> "assistant", content |-> "How can I help?"]>>)}

\* request.history or []
HistoryOrEmpty(req) == IF req.has_history THEN req.history ELSE <<>>

\* history + [{"role": "user", "content": message}]
Conversation(message, history) ==
    history \o <<[role |-> "user", content |-> message]>>

DefaultClarification == "Could you please clarify what you need help with?"

\* variant: a routing without "agent" goes to the medical agent
AgentNameOf_Medical(c) ==
    IF c.json = "invalid" THEN "orchestrator"
    ELSE IF c.agent = NoKey THEN "medical" ELSE c.agent

\* routing.get("agent", "orchestrator") after the JSON parse
AgentNameOf(c) ==
    IF c.json = "invalid" \/ c.agent = NoKey THEN "orchestrator" ELSE c.agent

\* routing.get("response", DefaultClarification) after the JSON parse
RoutingResponseOf(c) ==
    IF c.json = "invalid" THEN c.text
    ELSE IF c.response = NoKey THEN DefaultClarification
    ELSE c.response

----------------------------------------------------------------------------
(* The state machine *)

Init ==
    /\ asyncio_imported \in BOOLEAN
    /\ entry = "none"
    /\ pc = "idle"
    /\ pm_agent = "none"
    /\ retry_count = 0
    /\ agent_name = NoKey
    /\ details = NoDetails
    /\ missing_fields = <<>>
    /\ available_times = <<>>
    /\ book_details = NoDetails
    /\ booking_result = NoBooking
    /\ scan = NoScan
    /\ next_days = <<>>
    /\ availability = NoAvailability
    /\ response = NoResponse
    /\ calls = <<>>
    /\ warnings = <<>>
    /\ exc = "none"
    /\ request = NoRequest
    /\ orchestrator_response = NoContent
    /\ medical_call = <<>>
    /\ http_status = 0
    /\ get_answer = NoGetAnswer
    /\ post_answer = NoPostAnswer
    /\ turns = <<>>
    /\ booked = {}

CallsOfPost(cs) == Cardinality({i \in 1..Len(cs) : cs[i].op = "POST"})

\* return MessageResponse(...)
Return(r) ==
    /\ response' = r
    /\ pc' = "done"
    /\ exc' = exc
    /\ http_status' = 200

\* an exception leaves the function that was called: chat catches it at its
\* outer except and answers the system message, the other functions let it
\* out to their caller
Raise(e, who) ==
    /\ exc' = e
    /\ pc' = "done"
    /\ response' = IF who = "chat" THEN SystemResponse ELSE response
    /\ http_status' = IF who = "chat" THEN 200 ELSE http_status

\* variant: the scan starts on the day after preferred_date
ChatScan_FromNextDay(d) ==
    IF Parses(d.preferred_date)
    THEN /\ scan' = ScanStart(d.doctor_id,
                              strftime(NextDay(strptime(d.preferred_date))),
                              DefaultNumDays)
         /\ pc' = "scan"
         /\ UNCHANGED <<response, exc, http_status>>
    ELSE /\ scan' = ScanRaised(d.doctor_id, d.preferred_date, DefaultNumDays)
         /\ Raise("ValueError", "chat")

\* step 4 of chat: check_next_available_slots(doctor_id, preferred_date)
ChatScan(d) ==
    IF Parses(d.preferred_date)
    THEN /\ scan' = ScanStart(d.doctor_id, d.preferred_date, DefaultNumDays)
         /\ pc' = "scan"
         /\ UNCHANGED <<response, exc, http_status>>
    ELSE /\ scan' = ScanRaised(d.doctor_id, d.preferred_date, DefaultNumDays)
         /\ Raise("ValueError", "chat")

\* steps 3 to 5 of chat
Steps3To5(d, times) ==
    IF OffersSameDay(times)
    THEN /\ Return(SameDayResponse(d, times))
         /\ UNCHANGED scan
    ELSE ChatScan(d)

\* variant: a failed booking ends the turn with the generic response
ReturnBooking_Generic(who, d, times, result) ==
    /\ booking_result' = result
    /\ IF who = "chat"
       THEN Return(IF BookingSucceeded(result) THEN ConfirmationResponse(d)
                   ELSE GenericResponse)
       ELSE /\ pc' = "done"
            /\ UNCHANGED <<response, exc, http_status>>
    /\ UNCHANGED scan

\* book_appointment returns result
ReturnBooking(who, d, times, result) ==
    /\ booking_result' = result
    /\ IF who = "chat"
       THEN IF BookingSucceeded(result)
            THEN /\ Return(ConfirmationResponse(d))
                 /\ UNCHANGED scan
            ELSE Steps3To5(d, times)
       ELSE /\ pc' = "done"
            /\ UNCHANGED <<response, exc, http_status, scan>>

\* POST /chat arrives
ChatRequest ==
    /\ pc = "idle"
    /\ entry' = "chat"
    /\ pc' = "process_message"
    /\ pm_agent' = "orchestrator"
    /\ retry_count' = 0
    /\ request' \in Requests
    /\ UNCHANGED <<orchestrator_response, medical_call, get_answer,
                   post_answer, turns, booked>>
    /\ UNCHANGED <<asyncio_imported, agent_name, details, missing_fields,
                   available_times, book_details, booking_result, scan,
                   next_days, availability, response, calls, warnings, exc,
                   http_status>>

\* process_message: client.run (or reading its last message) raises
ProcessMessageFails ==
    /\ pc = "process_message"
    /\ retry_count' = retry_count + 1
    /\ IF retry_count' > max_retries
       THEN Raise("HTTPException", "chat")
       ELSE IF ~asyncio_imported
       THEN Raise("NameError", "chat")
       ELSE /\ pc' = "backoff"
            /\ UNCHANGED <<response, exc, http_status>>
    /\ UNCHANGED <<request, orchestrator_response, medical_call, get_answer,
                   post_answer, turns, booked>>
    /\ UNCHANGED <<asyncio_imported, entry, pm_agent, agent_name, details,
                   missing_fields, available_times, book_details,
                   booking_result, scan, next_days, availability, calls,
                   warnings>>

\* process_message: asyncio.sleep(1) is over
Backoff ==
    /\ pc = "backoff"
    /\ pc' = "process_message"
    /\ UNCHANGED <<request, orchestrator_response, medical_call, get_answer,
                   post_answer, turns, booked>>
    /\ UNCHANGED <<asyncio_imported, entry, pm_agent, retry_count, agent_name,
                   details, missing_fields, available_times, book_details,
                   booking_result, scan, next_days, availability, response,
                   calls, warnings, exc, http_status>>

\* the orchestrator answers; chat parses the routing and runs up to its
\* first call
Route ==
    /\ pc = "process_message"
    /\ pm_agent = "orchestrator"
    /\ \E c \in OrchestratorContents :
         /\ orchestrator_response' = c
         /\ agent_name' = IF c.json = "other" THEN agent_name
                          ELSE AgentNameOf(c)
         /\ retry_count' = 0
         /\ medical_call' =
              IF c.json # "other" /\ AgentNameOf(c) = "medical"
              THEN Conversation(request.message, HistoryOrEmpty(request))
              ELSE medical_call
         /\ IF c.json = "other"
            THEN /\ Raise("AttributeError", "chat")
                 /\ UNCHANGED <<pm_agent, details, missing_fields>>
            ELSE IF agent_name' = "appointment"
            THEN /\ details' = c.details
                 /\ missing_fields' = c.missing_fields
                 /\ pm_agent' = pm_agent
                 /\ IF NeedsIntake(c.missing_fields)
                    THEN Return(IntakeResponse(c.missing_fields))
                    ELSE IF c.details.doctor_id = NoKey
                            \/ c.details.preferred_date = NoKeyDate
                    THEN Raise("KeyError", "chat")
                    ELSE /\ pc' = "check_requested_slot"
                         /\ UNCHANGED <<response, exc, http_status>>
            ELSE IF agent_name' = "medical"
            THEN /\ pm_agent' = "medical"
                 /\ pc' = "process_message"
                 /\ UNCHANGED <<details, missing_fields, response, exc,
                                http_status>>
            ELSE /\ Return(OrchestratorResponse(RoutingResponseOf(c)))
                 /\ UNCHANGED <<pm_agent, details, missing_fields>>
    /\ UNCHANGED <<request, get_answer, post_answer, turns, booked>>
    /\ UNCHANGED <<asyncio_imported, entry, available_times, book_details,
                   booking_result, scan, next_days, availability, calls,
                   warnings>>

\* the medical agent answers
MedicalAnswer ==
    /\ pc = "process_message"
    /\ pm_agent = "medical"
    /\ \E text \in MedicalTexts : Return(MedicalResponse(text))
    /\ retry_count' = 0
    /\ UNCHANGED <<request, orchestrator_response, medical_call, get_answer,
                   post_answer, turns, booked>>
    /\ UNCHANGED <<asyncio_imported, entry, pm_agent, agent_name, details,
                   missing_fields, available_times, book_details,
                   booking_result, scan, next_days, availability, calls,
                   warnings>>


\* step 1 of chat: the availability of the requested date, and the code up
\* to the next call
CheckRequestedSlot ==
    /\ pc = "check_requested_slot"
    /\ \E o \in GetOutcomes :
         LET res == get_doctor_availability(o)
             times == DataTimes(res)
         IN  /\ calls' = Append(calls, GetCall(details.doctor_id,
                                               details.preferred_date))
             /\ availability' = res
             /\ get_answer' = o
             /\ IF ~AvailabilityOk(res)
                THEN /\ Return(GenericResponse)
                     /\ UNCHANGED <<available_times, book_details,
                                    booking_result, scan>>
                ELSE /\ available_times' = times
                     /\ IF details.preferred_time = NoKey
                        THEN /\ Raise("KeyError", "chat")
                             /\ UNCHANGED <<book_details, booking_result, scan>>
                        ELSE IF InTimes(details.preferred_time, times)
                        THEN /\ book_details' = details
                             /\ IF MissingOf(details) # <<>>
                                THEN ReturnBooking("chat", details, times,
                                       BookingMissing(MissingOf(details)))
                                ELSE /\ pc' = "book_post"
                                     /\ UNCHANGED <<booking_result, scan,
                                                    response, exc, http_status>>
                        ELSE /\ Steps3To5(details, times)
                             /\ UNCHANGED <<book_details, booking_result>>
    /\ UNCHANGED <<request, orchestrator_response, medical_call, post_answer,
                   turns, booked>>
    /\ UNCHANGED <<asyncio_imported, entry, pm_agent, retry_count, agent_name,
                   details, missing_fields, next_days, warnings>>

\* variant: a POST that timed out is sent once more
BookPost_Retry ==
    /\ pc = "book_post"
    /\ calls' = Append(calls, PostCall(book_details))
    /\ \E o \in PostOutcomes :
         /\ post_answer' = o
         /\ IF o.kind = "timeout" /\ CallsOfPost(calls) = 0
            THEN UNCHANGED <<pc, booking_result, response, exc, http_status,
                             scan>>
            ELSE IF IsConflict(o)
            THEN /\ pc' = "book_alternatives"
                 /\ UNCHANGED <<booking_result, response, exc, http_status,
                                scan>>
            ELSE ReturnBooking(entry, details, available_times, BookingOf(o))
    /\ UNCHANGED <<request, orchestrator_response, medical_call, get_answer,
                   turns, booked>>
    /\ UNCHANGED <<asyncio_imported, entry, pm_agent, retry_count, agent_name,
                   details, missing_fields, available_times, book_details,
                   next_days, availability, warnings>>

\* book_appointment: the POST is answered (or fails)
BookPost ==
    /\ pc = "book_post"
    /\ calls' = Append(calls, PostCall(book_details))
    /\ \E o \in PostOutcomes :
         /\ post_answer' = o
         /\ IF IsConflict(o)
            THEN /\ pc' = "book_alternatives"
                 /\ UNCHANGED <<booking_result, response, exc, http_status,
                                scan>>
            ELSE ReturnBooking(entry, details, available_times, BookingOf(o))
    /\ UNCHANGED <<request, orchestrator_response, medical_call, get_answer,
                   turns, booked>>
    /\ UNCHANGED <<asyncio_imported, entry, pm_agent, retry_count, agent_name,
                   details, missing_fields, available_times, book_details,
                   next_days, availability, warnings>>

\* book_appointment after a 409: the alternatives are fetched
BookAlternatives ==
    /\ pc = "book_alternatives"
    /\ calls' = Append(calls, GetCall(book_details.doctor_id,
                                      book_details.preferred_date))
    /\ \E o \in GetOutcomes :
         /\ get_answer' = o
         /\ ReturnBooking(entry, details, available_times,
                          BookingConflict(get_doctor_availability(o)))
    /\ UNCHANGED <<request, orchestrator_response, medical_call, post_answer,
                   turns, booked>>
    /\ UNCHANGED <<asyncio_imported, entry, pm_agent, retry_count, agent_name,
                   details, missing_fields, available_times, book_details,
                   next_days, availability, warnings>>

\* check_next_available_slots: one round of the loop; after the last round
\* the warning is logged and the slots are returned
ScanDay ==
    /\ pc = "scan"
    /\ calls' = Append(calls, GetCall(scan.doctor_id, ScanDateStr(scan)))
    /\ \E o \in GetOutcomes :
         LET sc == ScanRound(scan, get_doctor_availability(o))
         IN  IF sc.i < sc.num_days
             THEN /\ scan' = sc
                  /\ UNCHANGED <<pc, next_days, warnings, response, exc,
                                 http_status>>
             ELSE /\ scan' = [sc EXCEPT !.state = "returned"]
                  /\ warnings' = IF sc.errors # <<>>
                                 THEN Append(warnings, sc.errors)
                                 ELSE warnings
                  /\ next_days' = sc.available_slots
                  /\ IF entry = "chat"
                     THEN Return(AfterScan(details, sc.available_slots))
                     ELSE /\ pc' = "done"
                          /\ UNCHANGED <<response, exc, http_status>>
    /\ UNCHANGED <<request, orchestrator_response, medical_call, get_answer,
                   post_answer, turns, booked>>
    /\ UNCHANGED <<asyncio_imported, entry, pm_agent, retry_count, agent_name,
                   details, missing_fields, available_times, book_details,
                   booking_result, availability>>

(* The three clients called on their own, as src/test_app.py calls them *)

CallGetDoctorAvailability ==
    /\ pc = "idle"
    /\ entry' = "get_doctor_availability"
    /\ \E doctor_id \in {"dr_001"}, date \in {DateText(12, 15, 2024, TRUE)},
          o \in GetOutcomes :
         /\ calls' = Append(calls, GetCall(doctor_id, date))
         /\ availability' = get_doctor_availability(o)
         /\ get_answer' = o
    /\ pc' = "done"
    /\ UNCHANGED <<request, orchestrator_response, medical_call, post_answer,
                   turns, booked>>
    /\ UNCHANGED <<asyncio_imported, pm_agent, retry_count, agent_name,
                   details, missing_fields, available_times, book_details,
                   booking_result, scan, next_days, response, warnings, exc,
                   http_status>>

CallBookAppointment ==
    /\ pc = "idle"
    /\ entry' = "book_appointment"
    /\ \E d \in AllDetails :
         /\ book_details' = d
         /\ IF MissingOf(d) # <<>>
            THEN ReturnBooking("book_appointment", d, <<>>,
                               BookingMissing(MissingOf(d)))
            ELSE /\ pc' = "book_post"
                 /\ UNCHANGED <<booking_result, response, exc, http_status, scan>>
    /\ UNCHANGED <<request, orchestrator_response, medical_call, get_answer,
                   post_answer, turns, booked>>
    /\ UNCHANGED <<asyncio_imported, pm_agent, retry_count, agent_name,
                   details, missing_fields, available_times, next_days,
                   availability, calls, warnings>>

CallCheckNextAvailableSlots ==
    /\ pc = "idle"
    /\ entry' = "check_next_available_slots"
    /\ \E doctor_id \in {"dr_001"}, start_date \in ScanDates,
          num_days \in 0..MaxNumDays :
         IF ~Parses(start_date)
         THEN /\ scan' = ScanRaised(doctor_id, start_date, num_days)
              /\ Raise("ValueError", "check_next_available_slots")
         ELSE IF num_days = 0
         THEN /\ scan' = [ScanStart(doctor_id, start_date, num_days)
                            EXCEPT !.state = "returned"]
              /\ pc' = "done"
              /\ UNCHANGED <<response, exc, http_status>>
         ELSE /\ scan' = ScanStart(doctor_id, start_date, num_days)
              /\ pc' = "scan"
              /\ UNCHANGED <<response, exc, http_status>>
    /\ UNCHANGED <<request, orchestrator_response, medical_call, get_answer,
                   post_answer, turns, booked>>
    /\ UNCHANGED <<asyncio_imported, pm_agent, retry_count, agent_name,
                   details, missing_fields, available_times, book_details,
                   booking_result, next_days, availability, calls, warnings>>

Next ==
    \/ ChatRequest
    \/ ProcessMessageFails
    \/ Backoff
    \/ Route
    \/ MedicalAnswer
    \/ CheckRequestedSlot
    \/ BookPost
    \/ BookAlternatives
    \/ ScanDay
    \/ CallGetDoctorAvailability
    \/ CallBookAppointment
    \/ CallCheckNextAvailableSlots

Spec == Init /\ [][Next]_vars

\* check_next_available_slots called on its own.  The event loop resumes a
\* coroutine whose HTTP call has been answered or has timed out
\* (timeout=10.0), so a round of the scan that can be taken is taken
NextScan ==
    \/ CallCheckNextAvailableSlots
    \/ ScanDay

ScanSpec == Init /\ [][NextScan]_vars /\ WF_vars(ScanDay)

\* every step of a turn is the completion of an awaited call, which is
\* answered, fails or times out, or synchronous code: a step that can be
\* taken is taken
FairSpec == Spec /\ WF_vars(Next)

TypeOK ==
    /\ pc \in {"idle", "process_message", "backoff", "check_requested_slot",
               "book_post", "book_alternatives", "scan", "done"}
    /\ retry_count \in 0..max_retries + 1
    /\ Len(calls) <= 1 + MaxNumDays + DefaultNumDays

----------------------------------------------------------------------------
(* Two chat turns in flight together, asking the same doctor, date and time
   of a scheduling service that accepts each slot once.  Each turn runs the
   appointment branch of chat; the handler holds no state outside its
   locals, so the turns meet only in the service.  A step is one call of a
   turn to the service with the code up to its next call. *)

single_vars == <<asyncio_imported, entry, pc, pm_agent, retry_count,
                 agent_name, details, missing_fields, available_times,
                 book_details, booking_result, scan, next_days, availability,
                 response, calls, warnings, exc, request,
                 orchestrator_response, medical_call, http_status,
                 get_answer, post_answer>>

TurnIds == {1, 2}

\* the slots the service has on the day, before any is taken
DaySlots == LongList

\* the free slots of the day, in the order the service returns them
FreeSlots(taken) == SelectSeq(DaySlots, LAMBDA t : t \notin taken)

\* the answers to GET /doctor/availability: the free slots, or none in time
ServiceGetAnswers(taken) ==
    {GetOutcome("ok", TRUE, FreeSlots(taken)),
     GetOutcome("timeout", FALSE, <<>>)}

\* the answers to POST /appointments/book for a time: 200 when the slot is
\* free, 409 with a detail when it is taken, or none in time
ServicePostAnswers(taken, time) ==
    {[kind |-> "timeout", status |-> 0, body |-> "none"],
     IF time \in taken
     THEN [kind |-> "response", status |-> 409, body |-> "detail"]
     ELSE [kind |-> "response", status |-> 200, body |-> "no_detail"]}

\* the slots taken once the service has given answer o for a time
TakenAfter(taken, time, o) ==
    IF o.kind = "response" /\ o.status = 200 THEN taken \cup {time}
    ELSE taken

\* the locals of a turn that starts the appointment branch with details d
StartTurn(d) ==
    [pc |-> "check_requested_slot", details |-> d, calls |-> <<>>,
     availability |-> NoAvailability, get_answer |-> NoGetAnswer,
     available_times |-> <<>>, booking_result |-> NoBooking,
     post_answer |-> NoPostAnswer, response |-> NoResponse]

\* steps 3 to 5 of chat for the turn t; the scan of step 4 is not reached
\* while the day has free slots
TurnSteps3To5(t) ==
    IF OffersSameDay(t.available_times)
    THEN [t EXCEPT !.pc = "done",
                   !.response = SameDayResponse(t.details,
                                                t.available_times)]
    ELSE [t EXCEPT !.pc = "scan"]

\* book_appointment returns result to the turn t
TurnReturnBooking(t, result) ==
    IF BookingSucceeded(result)
    THEN [t EXCEPT !.booking_result = result, !.pc = "done",
                   !.response = ConfirmationResponse(t.details)]
    ELSE TurnSteps3To5([t EXCEPT !.booking_result = result])

\* step 1 of chat for the turn t, the service having answered o
TurnAfterCheck(t, o) ==
    LET res == get_doctor_availability(o)
        t1 == [t EXCEPT !.calls = Append(@, GetCall(t.details.doctor_id,
                                                    t.details.preferred_date)),
                        !.availability = res,
                        !.get_answer = o]
        t2 == [t1 EXCEPT !.available_times = DataTimes(res)]
    IN  IF ~AvailabilityOk(res)
        THEN [t1 EXCEPT !.pc = "done", !.response = GenericResponse]
        ELSE IF InTimes(t.details.preferred_time, DataTimes(res))
        THEN IF MissingOf(t.details) # <<>>
             THEN TurnReturnBooking(t2, BookingMissing(MissingOf(t.details)))
             ELSE [t2 EXCEPT !.pc = "book_post"]
        ELSE TurnSteps3To5(t2)

\* book_appointment for the turn t, the service having answered the POST o
TurnAfterPost(t, o) ==
    LET t1 == [t EXCEPT !.calls = Append(@, PostCall(t.details)),
                        !.post_answer = o]
    IN  IF IsConflict(o) THEN [t1 EXCEPT !.pc = "book_alternatives"]
        ELSE TurnReturnBooking(t1, BookingOf(o))

\* book_appointment after a 409 for the turn t, the service having answered
\* the second GET o
TurnAfterAlternatives(t, o) ==
    TurnReturnBooking(
        [t EXCEPT !.calls = Append(@, GetCall(t.details.doctor_id,
                                              t.details.preferred_date))],
        BookingConflict(get_doctor_availability(o)))

InitConcurrent ==
    /\ asyncio_imported = TRUE
    /\ entry = "none"
    /\ pc = "idle"
    /\ pm_agent = "none"
    /\ retry_count = 0
    /\ agent_name = NoKey
    /\ details = NoDetails
    /\ missing_fields = <<>>
    /\ available_times = <<>>
    /\ book_details = NoDetails
    /\ booking_result = NoBooking
    /\ scan = NoScan
    /\ next_days = <<>>
    /\ availability = NoAvailability
    /\ response = NoResponse
    /\ calls = <<>>
    /\ warnings = <<>>
    /\ exc = "none"
    /\ request = NoRequest
    /\ orchestrator_response = NoContent
    /\ medical_call = <<>>
    /\ http_status = 0
    /\ get_answer = NoGetAnswer
    /\ post_answer = NoPostAnswer
    /\ \E names \in [TurnIds -> DoctorNames] :
         turns = [i \in TurnIds |->
                    StartTurn(DetailsOf("dr_001", names[i],
                                        DateText(12, 15, 2024, TRUE),
                                        "09:00 AM"))]
    /\ booked \in {{}, {"10:00 AM"}}

\* the turn i checks the requested date
TurnCheck(i) ==
    /\ turns[i].pc = "check_requested_slot"
    /\ \E o \in ServiceGetAnswers(booked) :
         turns' = [turns EXCEPT ![i] = TurnAfterCheck(@, o)]
    /\ UNCHANGED booked
    /\ UNCHANGED single_vars

\* the turn i sends its booking, and the service takes the slot if free
TurnPost(i) ==
    /\ turns[i].pc = "book_post"
    /\ \E o \in ServicePostAnswers(booked, turns[i].details.preferred_time) :
         /\ turns' = [turns EXCEPT ![i] = TurnAfterPost(@, o)]
         /\ booked' = TakenAfter(booked, turns[i].details.preferred_time, o)
    /\ UNCHANGED single_vars

\* the turn i, refused, fetches the alternatives
TurnAlternatives(i) ==
    /\ turns[i].pc = "book_alternatives"
    /\ \E o \in ServiceGetAnswers(booked) :
         turns' = [turns EXCEPT ![i] = TurnAfterAlternatives(@, o)]
    /\ UNCHANGED booked
    /\ UNCHANGED single_vars

NextConcurrent ==
    \E i \in TurnIds :
        \/ TurnCheck(i)
        \/ TurnPost(i)
        \/ TurnAlternatives(i)

SpecConcurrent == InitConcurrent /\ [][NextConcurrent]_vars

----------------------------------------------------------------------------
(* Vocabulary of the properties *)

ChatTurn == entry = "chat"
AppointmentTurn == ChatTurn /\ agent_name = "appointment"
Finished == pc = "done"

\* the fields of d that are absent or empty, in the order of the contract
AbsentOrEmpty(d) ==
    (IF d.doctor_id = NoKey \/ d.doctor_id = "" THEN <<"doctor_id">> ELSE <<>>)
    \o (IF d.preferred_date = NoKeyDate \/ d.preferred_date = EmptyDate
        THEN <<"preferred_date">> ELSE <<>>)
    \o (IF d.preferred_time = NoKey \/ d.preferred_time = ""
        THEN <<"preferred_time">> ELSE <<>>)

Complete(d) == AbsentOrEmpty(d) = <<>>

\* pieces is the text of names joined with ", "
CommaJoined(pieces, names) ==
    /\ Len(pieces) = IF names = <<>> THEN 0 ELSE 2 * Len(names) - 1
    /\ \A i \in 1..Len(names) : pieces[2 * i - 1] = names[i]
    /\ \A i \in 1..Len(names) - 1 : pieces[2 * i] = ", "

\* the names in a text of names joined with ", "
ListedNames(pieces) == [i \in 1..(Len(pieces) + 1) \div 2 |-> pieces[2 * i - 1]]

Range(seq) == {seq[i] : i \in 1..Len(seq)}

CallsOf(op) == {i \in 1..Len(calls) : calls[i].op = op}

IsIntake(r) == r.agent = Coordinator /\ r.response.template = "intake"

\* the times the service returned to the initial check of the turn
InitialTimes == availability.data.available_times

\* the initial check of the turn was made
InitialCheckMade == ChatTurn /\ Len(calls) >= 1

\* book_appointment was called
BookingCalled ==
    pc \in {"book_post", "book_alternatives"} \/ booking_result # NoBooking

----------------------------------------------------------------------------
(* C1 *)

\* C1: in an appointment turn whose details lack doctor_id, preferred_date
\* or preferred_time (absent or empty), whatever missing_fields holds, no
\* call is made to the scheduling service and the turn ends with the intake
\* response that lists exactly the lacking fields.
C1_IntakeFromDetails ==
    (AppointmentTurn /\ ~Complete(details))
    => /\ calls = <<>>
       /\ Finished
       /\ IsIntake(response)
       /\ CommaJoined(response.response.fields,
                      ListedNames(response.response.fields))
       /\ Len(ListedNames(response.response.fields))
            = Len(AbsentOrEmpty(details))
       /\ Range(ListedNames(response.response.fields))
            = Range(AbsentOrEmpty(details))

(* C2 *)

\* C2: in an appointment turn with a non-empty missing_fields list the turn
\* has ended with the Appointment Coordinator's intake response, whose text
\* is the names of missing_fields in their order joined with ", ", without
\* suggestions and without any call to the scheduling service, whatever the
\* details are.
C2_IntakeFromMissingFields ==
    (AppointmentTurn /\ missing_fields # <<>>)
    => /\ Finished
       /\ IsIntake(response)
       /\ CommaJoined(response.response.fields, missing_fields)
       /\ response.suggestions = None
       /\ calls = <<>>
       /\ scan.state = "none"
       /\ ~BookingCalled

\* C2 witness: an intake response for two fields in the order given, with
\* details that lack nothing
C2_Witness ==
    /\ AppointmentTurn /\ Finished
    /\ missing_fields = <<"preferred_time", "doctor_id">>
    /\ Complete(details)
    /\ IsIntake(response)

(* C3 *)

\* the first two calls of the turn are the initial check and the booking
\* of the requested slot
BookingAttempted ==
    /\ Len(calls) >= 2
    /\ calls[1] = GetCall(details.doctor_id, details.preferred_date)
    /\ calls[2] = [op |-> "POST", doctor_id |-> details.doctor_id,
                   date |-> details.preferred_date,
                   time |-> details.preferred_time]

\* C3: in an appointment turn with complete details whose initial check
\* succeeded with preferred_time among the returned times, the booking is
\* attempted (the POST is the next call); and once the booking has reported
\* success the turn has ended with the Appointment Coordinator's
\* confirmation naming the doctor (doctor_name, else doctor_id), the date
\* and the time, without suggestions, the POST being the last call.
C3_BookThenConfirm ==
    /\ (InitialCheckMade /\ Complete(details) /\ availability.success
        /\ details.preferred_time \in Range(InitialTimes))
       => (pc = "book_post" /\ Len(calls) = 1) \/ BookingAttempted
    /\ (ChatTurn /\ Complete(details) /\ booking_result.success)
       => /\ Finished
          /\ BookingAttempted
          /\ Len(calls) = 2
          /\ response.agent = Coordinator
          /\ response.response
               = [template |-> "confirmed",
                  doctor |-> IF details.doctor_name = NoKey
                             THEN details.doctor_id
                             ELSE details.doctor_name,
                  date |-> details.preferred_date,
                  time |-> details.preferred_time]
          /\ response.suggestions = None
          /\ scan.state = "none"

\* C3 witness: a confirmed booking of a time that is not the first of the
\* returned list, for a doctor without doctor_name
C3_Witness ==
    /\ ChatTurn /\ Finished /\ Complete(details)
    /\ booking_result.success
    /\ details.doctor_name = NoKey
    /\ InitialTimes[1] # details.preferred_time
    /\ response.response.template = "confirmed"

(* C4 *)

\* C4: in every turn (and in every call of book_appointment) at most one
\* booking POST is issued, whatever the service answers.
C4_AtMostOnePost == Cardinality(CallsOf("POST")) <= 1

\* C4 witness: a turn has ended after a booking that timed out, with its
\* one POST
C4_Witness ==
    /\ ChatTurn /\ Finished
    /\ booking_result.error = <<"Service temporarily unavailable">>
    /\ Cardinality(CallsOf("POST")) = 1

(* C5 *)

\* C5: when the initial check succeeded with a non-empty list of n times
\* that does not contain preferred_time, the turn has ended with the
\* same-day response whose text lists the first min(5, n) returned times in
\* the returned order and whose suggestions are the whole returned list and
\* date = preferred_date; the initial check is the only call.
C5_SameDayAlternatives ==
    (InitialCheckMade /\ availability.success /\ InitialTimes # <<>>
     /\ details.preferred_time # NoKey
     /\ details.preferred_time \notin Range(InitialTimes))
    => /\ Finished
       /\ response.agent = Coordinator
       /\ response.response.template = "same_day"
       /\ Len(response.response.lines) = Min(5, Len(InitialTimes))
       /\ \A i \in 1..Len(response.response.lines) :
            response.response.lines[i] = InitialTimes[i]
       /\ response.suggestions
            = [available_times |-> InitialTimes,
               date |-> details.preferred_date]
       /\ Len(calls) = 1
       /\ scan.state = "none"
       /\ ~BookingCalled

\* C5 witness: a same-day response for a returned list of more than 5
\* times, not in ascending order, without the requested time
C5_Witness ==
    /\ ChatTurn /\ Finished
    /\ availability.success
    /\ Len(InitialTimes) > 5
    /\ InitialTimes[1] = "10:00 AM" /\ InitialTimes[2] = "09:00 AM"
    /\ details.preferred_time = "05:00 PM"
    /\ response.response.template = "same_day"

(* C6 *)

\* C6: when the initial check succeeded with an empty list, the scanner is
\* invoked for doctor_id, starting at preferred_date, with the default
\* window of 5 days; and when it has returned at least one day the turn
\* has ended with the multi-day response whose text shows the first
\* min(3, n) days with the first min(3, k) times of each, in the scanner's
\* order, and whose suggestions.available_days is the scanner's whole
\* result.
C6_MultiDayOffer ==
    /\ (InitialCheckMade /\ availability.success /\ InitialTimes = <<>>
        /\ details.preferred_time # NoKey)
       => /\ scan.state # "none"
          /\ scan.doctor_id = details.doctor_id
          /\ scan.start_date = details.preferred_date
          /\ scan.num_days = 5
          /\ ~BookingCalled
    /\ (ChatTurn /\ scan.state = "returned" /\ scan.available_slots # <<>>)
       => /\ Finished
          /\ response.agent = Coordinator
          /\ response.response.template = "multi_day"
          /\ Len(response.response.days) = Min(3, Len(scan.available_slots))
          /\ \A i \in 1..Len(response.response.days) :
               LET shown == response.response.days[i]
                   day == scan.available_slots[i]
               IN  /\ shown.date = day.date
                   /\ Len(shown.lines) = Min(3, Len(day.times))
                   /\ \A j \in 1..Len(shown.lines) :
                        shown.lines[j] = day.times[j]
          /\ response.suggestions
               = [available_days |-> scan.available_slots]

\* C6 witness: a multi-day response for a scan that returned more than 3
\* days, the first of them with more than 3 times
C6_Witness ==
    /\ ChatTurn /\ Finished
    /\ scan.state = "returned"
    /\ Len(scan.available_slots) > 3
    /\ Len(scan.available_slots[1].times) > 3
    /\ Len(scan.available_slots[2].times) = 1
    /\ response.response.template = "multi_day"

(* C7 *)

\* C7: when the initial check of the turn failed (success = false), the
\* turn has ended with the generic response without suggestions, and the
\* initial check is its only call: no booking, no scan.
C7_InitialCheckFailed ==
    (InitialCheckMade /\ ~availability.success)
    => /\ Finished
       /\ response = [response |-> [template |-> "generic"],
                      agent |-> Coordinator, suggestions |-> None]
       /\ Len(calls) = 1
       /\ scan.state = "none"
       /\ ~BookingCalled

\* C7 witness: a turn that ended after its initial check timed out
C7_Witness ==
    /\ ChatTurn /\ Finished /\ Len(calls) = 1
    /\ availability.error = "Service temporarily unavailable"
    /\ response.response.template = "generic"

(* C8 *)

\* C8: when the booking attempted after a successful match has failed, for
\* whatever reason, the turn has ended without a fault with the same-day
\* response whose suggestions are the times returned by the initial check
\* of the turn and date = preferred_date; the negotiation makes no call
\* after the booking (the only later call is the booking client's own
\* fetch of alternatives).
C8_BookingFailureFallsThrough ==
    (ChatTurn /\ booking_result # NoBooking /\ ~booking_result.success)
    => /\ Finished
       /\ exc = "none"
       /\ response.agent = Coordinator
       /\ response.response.template = "same_day"
       /\ response.suggestions
            = [available_times |-> InitialTimes,
               date |-> details.preferred_date]
       /\ scan.state = "none"
       /\ Len(calls) = 1 + Cardinality(CallsOf("POST"))
                         + (IF booking_result.has_alternatives THEN 1 ELSE 0)

\* C8 witness: a turn that ended after a conflict whose fetched
\* alternatives differ from the times of the initial check
C8_Witness ==
    /\ ChatTurn /\ Finished
    /\ booking_result.error = <<"Time slot no longer available">>
    /\ booking_result.alternatives = ShortList
    /\ InitialTimes = LongList
    /\ response.response.template = "same_day"

(* C9 *)

\* the number of the day y-m-d, counting the days of the calendar
DayNumber(y, m, d) ==
    LET before == <<0, 31, 59, 90, 120, 151, 181, 212, 243, 273, 304, 334>>
        leap == IF y % 400 = 0 THEN 1
                ELSE IF y % 100 = 0 THEN 0
                ELSE IF y % 4 = 0 THEN 1 ELSE 0
    IN  365 * (y - 1) + ((y - 1) \div 4) - ((y - 1) \div 100)
        + ((y - 1) \div 400) + before[m] + (IF m > 2 THEN leap ELSE 0) + d

\* text is the MM/DD/YYYY string of the day k days after the start date
IsDayOfWindow(text, start, k) ==
    /\ text.fmt = "m/d/Y" /\ text.z
    /\ DayNumber(text.y, text.m, text.d)
         = DayNumber(start.y, start.m, start.d) + k

\* the rounds of the scan whose call succeeded with at least one time
GoodDays == {i \in 1..Len(scan.answers) :
               scan.answers[i].success /\ scan.answers[i].times # <<>>}

FailedDays == {i \in 1..Len(scan.answers) : ~scan.answers[i].success}

\* C9: check_next_available_slots(doctor_id, start_date, num_days), for a
\* start date that parses, asks for the num_days consecutive days from
\* start_date on and returns exactly one entry (date, times) for each of
\* them whose call succeeded with at least one time, in chronological
\* order, with the times as returned; the other days are left out, and
\* the days that failed are reported in one logged warning, not raised.
C9_ScanResult ==
    (scan.state = "returned")
    => LET slots == scan.available_slots
           n == IF scan.num_days > 0 THEN scan.num_days ELSE 0
       IN  /\ Finished /\ exc = "none"
           /\ next_days = slots
           /\ Len(scan.answers) = n
           /\ \A i \in 1..n :
                IsDayOfWindow(scan.answers[i].date, scan.start_date, i - 1)
           /\ Len(slots) = Cardinality(GoodDays)
           /\ \A j \in 1..Len(slots) :
                \E i \in GoodDays :
                  /\ slots[j] = [date |-> scan.answers[i].date,
                                 times |-> scan.answers[i].times]
                  /\ Cardinality({g \in GoodDays : g < i}) = j - 1
           /\ IF FailedDays = {} THEN warnings = <<>>
              ELSE /\ Len(warnings) = 1
                   /\ Range(warnings[1])
                        = {scan.answers[i].date : i \in FailedDays}

\* C9 witness: a 5-day window over the end of February of a leap year,
\* day 2 failing and the four other days with times: 4 entries
C9_Witness ==
    /\ entry = "check_next_available_slots"
    /\ scan.state = "returned" /\ scan.num_days = 5
    /\ scan.start_date = DateText(2, 27, 2024, FALSE)
    /\ FailedDays = {2} /\ GoodDays = {1, 3, 4, 5}
    /\ Len(next_days) = 4
    /\ next_days[2].date = DateText(2, 29, 2024, TRUE)
    /\ next_days[4].date = DateText(3, 2, 2024, TRUE)

(* C10 *)

\* C10: book_appointment called with details that lack doctor_id,
\* preferred_date or preferred_time (absent or empty) has returned
\* success = false with the error "Missing required fields: " followed by
\* exactly the lacking fields, in the order doctor_id, preferred_date,
\* preferred_time, joined with ", ", and has made no call: no POST and no
\* availability GET.
C10_BookingPrecondition ==
    (BookingCalled /\ ~Complete(book_details))
    => /\ Finished
       /\ ~booking_result.success
       /\ Head(booking_result.error) = "Missing required fields: "
       /\ CommaJoined(Tail(booking_result.error),
                      AbsentOrEmpty(book_details))
       /\ ~booking_result.has_alternatives
       /\ CallsOf("POST") = {}
       /\ calls = IF ChatTurn
                  THEN <<GetCall(details.doctor_id, details.preferred_date)>>
                  ELSE <<>>

\* C10 witness: book_appointment was called without doctor_id and with an
\* empty preferred_time
C10_Witness ==
    /\ entry = "book_appointment" /\ Finished
    /\ book_details.doctor_id = NoKey
    /\ book_details.preferred_time = ""
    /\ booking_result.error
         = <<"Missing required fields: ", "doctor_id", ", ", "preferred_time">>

----------------------------------------------------------------------------
(* C11 *)

\* the booking POST was answered with status 409
PostAnswered409 == post_answer.kind = "response" /\ post_answer.status = 409

\* the position of the booking POST among the calls (0: none was made)
PostPosition ==
    IF CallsOf("POST") = {} THEN 0
    ELSE CHOOSE i \in CallsOf("POST") : \A j \in CallsOf("POST") : i <= j

\* the available_times of an answer of the service, the empty list when
\* the call failed or the body lacks the field
TimesOfAnswer(o) == IF o.kind = "ok" /\ o.has_times THEN o.times ELSE <<>>

\* C11: once the booking POST was answered with status 409, book_appointment
\* makes one availability call for the same doctor_id and preferred_date
\* right after the POST and returns success = false, the error "Time slot
\* no longer available" and alternatives that are the available_times of
\* that call, or the empty list when that call failed; after any other
\* answer book_appointment makes no call after the POST.
C11_ConflictAlternatives ==
    (post_answer.kind # "none" /\ pc # "book_alternatives")
    => /\ PostAnswered409
          => /\ booking_result
                  = BookingResult(FALSE, NoKey,
                                  <<"Time slot no longer available">>,
                                  TRUE, TimesOfAnswer(get_answer))
             /\ Len(calls) > PostPosition
             /\ calls[PostPosition + 1]
                  = GetCall(book_details.doctor_id,
                            book_details.preferred_date)
       /\ Len(calls) = PostPosition + scan.i
                       + (IF PostAnswered409 THEN 1 ELSE 0)

----------------------------------------------------------------------------
(* C12 *)

\* C12: get_doctor_availability called on its own has returned without
\* raising after exactly one GET.  A 2xx answer gives success = true with
\* the body as data and available_times equal to the body's field, the
\* empty list when the body lacks it; a timeout gives success = false with
\* "Service temporarily unavailable", a non-2xx status "Unable to fetch
\* availability", any other failure "An unexpected error occurred".
C12_AvailabilityResult ==
    entry = "get_doctor_availability"
    => /\ Finished /\ exc = "none"
       /\ Len(calls) = 1 /\ calls[1].op = "GET"
       /\ availability.success = (get_answer.kind = "ok")
       /\ get_answer.kind = "ok"
          => /\ availability.has_data
             /\ availability.data.has_times = get_answer.has_times
             /\ availability.has_available_times
             /\ availability.available_times = TimesOfAnswer(get_answer)
             /\ availability.error = NoKey
       /\ get_answer.kind # "ok"
          => /\ ~availability.has_data
             /\ ~availability.has_available_times
             /\ availability.error
                  = CASE get_answer.kind = "timeout"
                           -> "Service temporarily unavailable"
                      [] get_answer.kind = "status"
                           -> "Unable to fetch availability"
                      [] OTHER -> "An unexpected error occurred"

\* C12 witness: the service answered a non-2xx status and the call
\* returned "Unable to fetch availability"
C12_Witness ==
    /\ entry = "get_doctor_availability" /\ Finished
    /\ get_answer.kind = "status"
    /\ ~availability.success
    /\ availability.error = "Unable to fetch availability"
    /\ Len(calls) = 1

----------------------------------------------------------------------------
(* C13 *)

\* a status of the 4xx or 5xx class
NonSuccess(status) == status >= 400

\* C13: a chat turn in which a fault reached the outer handler (the retries
\* of process_message exhausted, a missing key of details, any other
\* exception) has ended with the fixed system message, which carries no
\* status code, exception text or field name, and with a non-success HTTP
\* status.
C13_FaultGivesFailureStatus ==
    (ChatTurn /\ exc # "none")
    => /\ Finished
       /\ response = SystemResponse
       /\ NonSuccess(http_status)

----------------------------------------------------------------------------
(* C14 *)

\* the times of the model that read as HH:MM AM/PM
WellFormedTimes == Range(SlotPool) \cup {"05:00 PM"}

\* the turn's preferred_date reads as MM/DD/YYYY and its preferred_time as
\* HH:MM AM/PM
WellFormedSlot(d) ==
    Parses(d.preferred_date) /\ d.preferred_time \in WellFormedTimes

\* C14: in an appointment turn whose preferred_date does not read as
\* MM/DD/YYYY or whose preferred_time does not read as HH:MM AM/PM, no call
\* is made to the scheduling service.
C14_NoCallOnMalformedSlot ==
    (AppointmentTurn /\ ~WellFormedSlot(details)) => calls = <<>>

----------------------------------------------------------------------------
(* C15 *)

\* the orchestrator has answered in this turn
Routed == ChatTurn /\ orchestrator_response # NoContent

\* the agent the orchestrator named, NoKey when it named none
Intent ==
    IF orchestrator_response.json = "object" THEN orchestrator_response.agent
    ELSE NoKey

\* the response text the orchestrator gave: its "response" field, or all it
\* wrote when that is not JSON
ClassifierText ==
    IF orchestrator_response.json = "object"
    THEN orchestrator_response.response
    ELSE orchestrator_response.text

\* the turn has entered the appointment negotiation
Negotiating ==
    \/ pc \in {"check_requested_slot", "book_post", "book_alternatives",
               "scan"}
    \/ calls # <<>>
    \/ response.agent = Coordinator

\* the medical agent was given the history as it came, then the message
ForwardedUnchanged ==
    /\ Len(medical_call) = Len(request.history) + 1
    /\ SubSeq(medical_call, 1, Len(request.history)) = request.history
    /\ medical_call[Len(medical_call)]
         = [role |-> "user", content |-> request.message]

\* the parts of C15 on the appointment and the medical agent
RoutesToAgents ==
    /\ Negotiating => Intent = "appointment"
    /\ Intent # "medical" => medical_call = <<>>
    /\ Intent = "medical"
       => /\ ForwardedUnchanged
          /\ calls = <<>>
          /\ (Finished /\ exc = "none")
             => /\ response.agent = "Medical Advisor"
                /\ response.response.template = "verbatim"
                /\ response.response.text \in MedicalTexts
                /\ response.suggestions = None

----------------------------------------------------------------------------
(* C16 *)

\* C16: in a call of process_message, retry_count counts the attempts that
\* failed.  No fourth attempt is made; after a failed first or second
\* attempt the call is waiting the backoff or making the next attempt; the
\* call ends without an answer only after three failed attempts, raising
\* the processing error (HTTPException).
C16_BoundedRetry ==
    ChatTurn
    => /\ retry_count <= max_retries + 1
       /\ pc = "process_message" => retry_count <= max_retries
       /\ retry_count \in 1..max_retries
          => pc \in {"backoff", "process_message"}
       /\ retry_count = max_retries + 1
          => Finished /\ exc = "HTTPException"

----------------------------------------------------------------------------
(* C17 *)

\* the turn has answered with the confirmation
Confirmed ==
    /\ ChatTurn /\ Finished
    /\ response.agent = Coordinator
    /\ response.response.template = "confirmed"

\* the service accepted the booking: the POST was answered with status 200
PostAccepted ==
    /\ post_answer.kind = "response"
    /\ post_answer.status = 200
    /\ post_answer.body # "undecodable"

\* C17: a turn that answered with the confirmation has sent, earlier in the
\* turn, one booking POST that the service accepted, and the doctor_id,
\* date and time of that POST are those of the turn's details and the date
\* and time named in the confirmation.
C17_ConfirmationNeedsAcceptedPost ==
    Confirmed
    => /\ PostAccepted
       /\ Cardinality(CallsOf("POST")) = 1
       /\ calls[PostPosition] = PostCall(details)
       /\ Complete(details)
       /\ response.response.date = calls[PostPosition].date
       /\ response.response.time = calls[PostPosition].time
       /\ response.response.doctor
            \in {calls[PostPosition].doctor_id, details.doctor_name}
       /\ PostPosition = Len(calls)

\* C17 witness: a confirmation for dr_001 (no doctor_name) after the POST
\* was accepted
C17_Witness ==
    /\ Confirmed /\ PostAccepted
    /\ details.doctor_name = NoKey
    /\ response.response.doctor = "dr_001"
    /\ calls[Len(calls)].op = "POST"

----------------------------------------------------------------------------
(* C18 *)

TurnConfirmed(i) ==
    /\ turns[i].pc = "done"
    /\ turns[i].response = ConfirmationResponse(turns[i].details)

\* the POSTs the turn i has sent
TurnPosts(i) ==
    {k \in 1..Len(turns[i].calls) : turns[i].calls[k].op = "POST"}

\* the service refused the booking of the turn i
TurnRefused(i) ==
    turns[i].post_answer.kind = "response" /\ turns[i].post_answer.status = 409

\* the turn i saw the requested time among the free ones
TurnSawSlot(i) ==
    /\ turns[i].get_answer.kind = "ok"
    /\ InTimes(turns[i].details.preferred_time, turns[i].get_answer.times)

\* what the turn i answers, from its own details and the answers the
\* service gave to its own calls
TurnResult(i) ==
    LET t == turns[i]
    IN  IF t.get_answer.kind # "ok" THEN GenericResponse
        ELSE IF TurnSawSlot(i) /\ t.post_answer.kind = "response"
                /\ t.post_answer.status = 200
        THEN ConfirmationResponse(t.details)
        ELSE MessageResponse(
                 [template |-> "same_day", time |-> t.details.preferred_time,
                  date |-> t.details.preferred_date,
                  lines |-> SubSeq(t.get_answer.times, 1,
                                   Min(SameDayDisplay,
                                       Len(t.get_answer.times)))],
                 Coordinator,
                 [available_times |-> t.get_answer.times,
                  date |-> t.details.preferred_date])

\* C18: two turns ask the same slot of a service that accepts each slot
\* once.  In every interleaving at most one turn is confirmed; no turn
\* sends a second booking; a turn whose booking was refused fetches the
\* alternatives once and ends with the same-day alternatives of its own
\* first check; every finished turn's answer is the one its own details and
\* the service's answers to its own calls determine; and when both turns
\* saw the slot free and both bookings were answered, exactly one is
\* confirmed and the other was refused.
C18_OneConfirmation ==
    /\ Cardinality({i \in TurnIds : TurnConfirmed(i)}) <= 1
    /\ \A i \in TurnIds :
         /\ Cardinality(TurnPosts(i)) <= 1
         /\ turns[i].pc \in {"check_requested_slot", "book_post",
                             "book_alternatives", "done"}
         /\ turns[i].pc = "done" => turns[i].response = TurnResult(i)
         /\ (TurnRefused(i) /\ turns[i].pc = "done")
            => /\ ~TurnConfirmed(i)
               /\ turns[i].response.response.template = "same_day"
               /\ turns[i].response.suggestions.available_times
                    = turns[i].available_times
               /\ turns[i].booking_result.error
                    = <<"Time slot no longer available">>
               /\ Len(turns[i].calls) = 3
               /\ turns[i].calls[3] = turns[i].calls[1]
    /\ (\A i \in TurnIds :
          /\ turns[i].pc = "done" /\ TurnSawSlot(i)
          /\ turns[i].post_answer.kind = "response")
       => \E i, j \in TurnIds :
            /\ i # j
            /\ TurnConfirmed(i)
            /\ TurnRefused(j) /\ ~TurnConfirmed(j)

\* C18 witness: both turns saw 09:00 AM free, the first booked it, the
\* second was refused and ended with the same-day alternatives, which still
\* list 09:00 AM
C18_Witness ==
    /\ \A i \in TurnIds : turns[i].pc = "done" /\ TurnSawSlot(i)
    /\ TurnConfirmed(1)
    /\ TurnRefused(2)
    /\ turns[2].response.response.template = "same_day"
    /\ InTimes("09:00 AM", turns[2].response.suggestions.available_times)
    /\ booked = {"09:00 AM"}

----------------------------------------------------------------------------
(* C19 *)

\* the scan of the turn has returned without a day
ScanFoundNothing ==
    ChatTurn /\ scan.state = "returned" /\ scan.available_slots = <<>>

\* C19: a chat turn whose initial check succeeded with no time and whose
\* scan of the next days returned no day has ended with the generic
\* response, the one given when the initial check fails, without
\* suggestions and without any booking attempt.  (A scan is started in a
\* chat turn only after such an initial check.)
C19_NothingAvailable ==
    ScanFoundNothing
    => /\ availability.success /\ InitialTimes = <<>>
       /\ available_times = <<>>
       /\ Finished /\ exc = "none"
       /\ response = GenericResponse
       /\ response.suggestions = None
       /\ ~BookingCalled
       /\ CallsOf("POST") = {}
       /\ Len(calls) = 1 + DefaultNumDays

\* C19 witness: the initial check returned an empty list, two days of the
\* scan failed and three had no time
C19_Witness ==
    /\ ScanFoundNothing /\ Finished
    /\ availability.data.has_times
    /\ Cardinality(FailedDays) = 2
    /\ response = GenericResponse

----------------------------------------------------------------------------
(* C20 *)

\* the calls made before the scan began
CallsBeforeScan == Len(calls) - scan.i

\* the scan has made one availability call for each of the first scan.i
\* days from the start date on, in that order, and nothing else
ScanCallsInOrder ==
    /\ CallsBeforeScan = (IF ChatTurn THEN 1 ELSE 0)
    /\ Len(scan.answers) = scan.i
    /\ \A k \in 1..scan.i :
         LET c == calls[CallsBeforeScan + k]
         IN  /\ c.op = "GET"
             /\ c.doctor_id = scan.doctor_id
             /\ IsDayOfWindow(c.date, scan.start_date, k - 1)

\* where the scan stands: running before its last round, returned after it
ScanProgress ==
    /\ scan.state = "running"
       => /\ pc = "scan"
          /\ scan.i < scan.num_days
    /\ scan.state = "returned"
       => /\ Finished
          /\ scan.i = scan.num_days

\* C20: check_next_available_slots, for a start date that parses, makes
\* exactly num_days availability calls, one for each consecutive date from
\* the start date on, in increasing order, whatever each call returns: a
\* day that fails is followed by the call for the next day; and the scan,
\* once begun, returns.
C20_ScanCalls ==
    /\ [](scan.state \in {"running", "returned"}
          => ScanCallsInOrder /\ ScanProgress)
    /\ (scan.state = "running") ~> (scan.state = "returned")

\* C20 witness: a scan of five days over the end of the year has returned
\* after five calls, the first, third and last of which failed
C20_Witness ==
    /\ entry = "check_next_available_slots"
    /\ scan.state = "returned" /\ scan.num_days = 5
    /\ scan.start_date = DateText(12, 29, 2023, TRUE)
    /\ FailedDays = {1, 3, 5}
    /\ Len(calls) = 5
    /\ calls[4].date = DateText(1, 1, 2024, TRUE)

----------------------------------------------------------------------------
(* C21 *)

Collaborators ==
    {"get_doctor_availability", "check_next_available_slots",
     "book_appointment"}

\* C21: get_doctor_availability, check_next_available_slots and
\* book_appointment never raise: called on their own, with any input and
\* any answer of the service, they end without an exception, and in a chat
\* turn no exception of theirs reaches the handler (the scan never raises
\* on its start date).
C21_CollaboratorsNeverRaise ==
    /\ entry \in Collaborators => exc = "none"
    /\ scan.state # "raised"

----------------------------------------------------------------------------
(* C22 *)

\* process_message is making an attempt after one that failed
Retrying == pc = "process_message" /\ retry_count >= 1

\* the dates the scan has asked for
ScanDatesAsked == {scan.answers[k].date : k \in 1..Len(scan.answers)}

\* no call to the scheduling service is repeated: the first check is made
\* once and ends the turn when it fails, the booking is sent at most once,
\* the alternatives are fetched at most once, the scan asks each of its
\* days once, and no call is made while process_message is retrying
SchedulingCallsOnce ==
    /\ (pc \in {"process_message", "backoff"}) => calls = <<>>
    /\ retry_count >= 1 => calls = <<>>
    /\ (calls # <<>> /\ ~availability.success) => Len(calls) = 1
    /\ Cardinality(CallsOf("POST")) <= 1
    /\ Cardinality(ScanDatesAsked) = scan.i
    /\ Len(calls) = 1 + Cardinality(CallsOf("POST")) + scan.i
                    + (IF IsConflict(post_answer) /\ pc # "book_alternatives"
                       THEN 1 ELSE 0)
       \/ calls = <<>>

\* C22 as stated: in a chat turn only the call of the orchestrator is
\* attempted again after a failure: not the call of the medical agent, and
\* no call to the scheduling service.
C22_RetryOnlyClassification ==
    ChatTurn
    => /\ Retrying => pm_agent = "orchestrator"
       /\ SchedulingCallsOnce

\* C22 (amended): in a chat turn the calls attempted again after a failure
\* are those made through process_message, the call of the orchestrator
\* and the call of the medical agent; no call to the scheduling service is
\* repeated or made inside the retry loop.
C22_RetryOnlyAgents ==
    ChatTurn
    => /\ Retrying => pm_agent \in {"orchestrator", "medical"}
       /\ pm_agent \in {"orchestrator", "medical"}
       /\ SchedulingCallsOnce

\* C22 witness: the call of the medical agent is attempted for the third
\* time
C22_Witness ==
    /\ ChatTurn /\ Retrying
    /\ pm_agent = "medical"
    /\ retry_count = max_retries
    /\ medical_call # <<>>
    /\ calls = <<>>

----------------------------------------------------------------------------
(* C23 *)

\* book_appointment has returned after its POST was answered
BookingAnswered == post_answer.kind # "none" /\ pc # "book_alternatives"

Failure(error) == BookingResult(FALSE, NoKey, <<error>>, FALSE, <<>>)

\* the result for a status that is neither 200 nor 409: the upstream
\* detail when the body has one, "Booking failed" otherwise
RefusalOf(o) ==
    Failure(IF o.body = "detail" THEN "upstream detail" ELSE "Booking failed")

\* no call was made by book_appointment after its POST
NoCallAfterPost == Len(calls) = PostPosition + scan.i

\* the parts of C23 on calls that got no answer
BookingWithoutAnswer ==
    /\ post_answer.kind = "timeout"
       => /\ booking_result = Failure("Service temporarily unavailable")
          /\ NoCallAfterPost
    /\ post_answer.kind = "error"
       => /\ booking_result = Failure("An unexpected error occurred")
          /\ NoCallAfterPost

\* C23 as stated: book_appointment with complete details returns success
\* exactly when the POST was answered with status 200, with the body as
\* data; for every other status but 409 it returns the failure whose error
\* is the upstream detail when there is one and "Booking failed"
\* otherwise, without alternatives and without another call; a timeout
\* gives "Service temporarily unavailable", any other failure "An
\* unexpected error occurred".
C23_BookingResultAsStated ==
    BookingAnswered
    => /\ booking_result.success
          <=> (post_answer.kind = "response" /\ post_answer.status = 200)
       /\ booking_result.success => booking_result.data = "confirmation"
       /\ (post_answer.kind = "response"
           /\ post_answer.status \notin {200, 409})
          => /\ booking_result = RefusalOf(post_answer)
             /\ NoCallAfterPost
       /\ BookingWithoutAnswer

\* C23 (amended): as above for answers whose body decodes; an answer with
\* a status other than 409 whose body does not decode is one of the other
\* failures and gives "An unexpected error occurred", also when the status
\* is 200.
C23_BookingResult ==
    BookingAnswered
    => /\ booking_result.success
          <=> (post_answer.kind = "response" /\ post_answer.status = 200
               /\ post_answer.body # "undecodable")
       /\ booking_result.success
          => /\ booking_result.data = "confirmation"
             /\ ~booking_result.has_alternatives
             /\ NoCallAfterPost
       /\ (post_answer.kind = "response"
           /\ post_answer.status \notin {200, 409}
           /\ post_answer.body # "undecodable")
          => /\ booking_result = RefusalOf(post_answer)
             /\ NoCallAfterPost
       /\ (post_answer.kind = "response" /\ post_answer.status # 409
           /\ post_answer.body = "undecodable")
          => /\ booking_result = Failure("An unexpected error occurred")
             /\ NoCallAfterPost
       /\ BookingWithoutAnswer

\* C23 witness: book_appointment was answered 201 without a detail and
\* returned "Booking failed"
C23_Witness ==
    /\ entry = "book_appointment" /\ Finished
    /\ post_answer.kind = "response" /\ post_answer.status = 201
    /\ post_answer.body = "no_detail"
    /\ booking_result = Failure("Booking failed")
    /\ Len(calls) = 1

----------------------------------------------------------------------------
(* C24 *)

\* the calls of the turn are one availability GET for the requested date
\* alone
OneGetAlone ==
    /\ Len(calls) = 1
    /\ calls[1] = GetCall(details.doctor_id, details.preferred_date)

\* one GET, one booking POST, and one more GET when the POST was refused
\* with 409
GetThenPost ==
    /\ Len(calls) \in {2, 3}
    /\ calls[1] = GetCall(details.doctor_id, details.preferred_date)
    /\ calls[2] = PostCall(details)
    /\ Len(calls) = 3
       => /\ calls[3] = calls[1]
          /\ PostAnswered409

\* one GET followed by the GETs of the scan, the first of which asks for
\* the requested date again, and no POST
GetThenScan ==
    /\ Len(calls) \in 2..6
    /\ calls[1] = GetCall(details.doctor_id, details.preferred_date)
    /\ \A k \in 2..Len(calls) :
         /\ calls[k].op = "GET"
         /\ calls[k].doctor_id = details.doctor_id
         /\ IsDayOfWindow(calls[k].date, details.preferred_date, k - 2)
    /\ Finished => Len(calls) = 6

\* C24: a chat turn makes no call, one GET alone, one GET and one POST
\* (and one GET after a 409), or one GET and then the five GETs of the scan
\* without a POST, never more than six calls; it has no response until it
\* ends and one response when it has ended; and every chat turn ends.
C24_TurnTerminates ==
    /\ [](ChatTurn
          => /\ Len(calls) <= 6
             /\ calls = <<>> \/ OneGetAlone \/ GetThenPost \/ GetThenScan
             /\ Finished <=> response # NoResponse
             /\ Finished <=> http_status = 200)
    /\ ChatTurn ~> Finished

\* C24 witness: a turn ended after six calls, the scan's first asking for
\* 02/27/2024 as the first check asked for 2/27/2024
C24_Witness ==
    /\ ChatTurn /\ Finished
    /\ Len(calls) = 6
    /\ details.preferred_date = DateText(2, 27, 2024, FALSE)
    /\ calls[2].date = DateText(2, 27, 2024, TRUE)
    /\ calls[6].date = DateText(3, 2, 2024, TRUE)
    /\ response # NoResponse

----------------------------------------------------------------------------
(* C25 *)

\* the template of the text the turn answered with
Template == response.response.template

\* C25: the response of a chat turn carries suggestions only when it offers
\* alternatives.  The same-day offer carries available_times, not empty,
\* and date, the requested date; the multi-day offer carries
\* available_days, not empty, each day with its date and times that are not
\* empty; every other response (intake, confirmation, generic, medical,
\* orchestrator, system) carries none.
C25_SuggestionsShape ==
    (ChatTurn /\ Finished)
    => IF Template = "same_day"
       THEN /\ DOMAIN response.suggestions = {"available_times", "date"}
            /\ response.suggestions.available_times # <<>>
            /\ response.suggestions.date = details.preferred_date
       ELSE IF Template = "multi_day"
       THEN /\ DOMAIN response.suggestions = {"available_days"}
            /\ response.suggestions.available_days # <<>>
            /\ \A k \in 1..Len(response.suggestions.available_days) :
                 LET day == response.suggestions.available_days[k]
                 IN  /\ DOMAIN day = {"date", "times"}
                     /\ day.times # <<>>
       ELSE /\ Template \in {"intake", "confirmed", "generic", "verbatim",
                             "system_error"}
            /\ response.suggestions = None

\* C25 witness: a multi-day offer of four days, one of them with a single
\* time
C25_Witness ==
    /\ ChatTurn /\ Finished
    /\ Template = "multi_day"
    /\ Len(response.suggestions.available_days) = 4
    /\ \E k \in 1..4 :
         Len(response.suggestions.available_days[k].times) = 1

====
